---- MODULE Spec2Model ----
(***************************************************************************)
(* GRASP with iterated local search for the travelling salesman problem,   *)
(* modelled from grasp-projeto/grasp.py.                                   *)
(*                                                                         *)
(* Python lists are objects: a variable holds a reference (an address of   *)
(* `heap`), `x[:]` allocates a new object, `x = y` shares one.  Costs are  *)
(* integers; a tour of n cities is a sequence over 0..n-1, and At(s, k) is *)
(* Python's s[k].                                                          *)
(***************************************************************************)
EXTENDS Integers, Sequences, FiniteSets, TLC

\* ------------------------------------------------------------------ bounds
MaxN == 5           \* largest number of cities of a call of busca_local or perturbar
MaxNC == 4          \* largest number of cities of a call of construir_solucao
AlphaDen == 2       \* alpha ranges over k / AlphaDen, k = 0..AlphaDen
MaxIter == 3        \* largest iteration budget of grasp in Spec
Orcamento == 10     \* iteration budget of grasp on the unit square
MaxAddr == 6        \* addresses of the heap
Comprimentos == {1, 2}   \* edge lengths: a side (1), a diagonal (2)

\* ------------------------------------------------------- program constants
None == 0           \* melhor_solucao = None
Infinito == 999     \* float("inf"): above every tour cost of the model

VARIABLES
    distancias,         \* the distance matrix, distancias[a][b]
    alpha,              \* numerator of alpha (alpha = alpha / AlphaDen)
    iteracoes,          \* iteration budget
    heap,               \* address -> contents of the list object (<<>> if free)
    pc,                 \* the statement about to run
    ret,                \* where the running callee returns to
    resultado,          \* the reference a callee returned
    melhor_solucao,     \* grasp: best tour recorded (reference or None)
    melhor_custo,       \* grasp: best cost recorded
    it,                 \* grasp: loop index
    solucao,            \* grasp: solucao
    custo,              \* grasp: custo
    solucao_perturbada, \* grasp: solucao_perturbada
    c_solucao,          \* construir_solucao: solucao
    nao_visitados,      \* construir_solucao: nao_visitados
    cidade_atual,       \* construir_solucao: cidade_atual
    bl_solucao,         \* busca_local: solucao
    melhor,             \* busca_local: melhor
    bl_melhor_custo,    \* busca_local: melhor_custo
    melhorou,           \* busca_local: melhorou
    i,                  \* busca_local: i
    j,                  \* busca_local: j
    entrada,            \* the caller's argument list, as it was at the call
    saida1,             \* the caller's first result
    aceitas,            \* tours accepted by the running busca_local call
    min_sel             \* least cost selected by an iteration of grasp so far

vars == <<distancias, alpha, iteracoes, heap, pc, ret, resultado,
          melhor_solucao, melhor_custo, it, solucao, custo, solucao_perturbada,
          c_solucao, nao_visitados, cidade_atual,
          bl_solucao, melhor, bl_melhor_custo, melhorou, i, j,
          entrada, saida1, aceitas, min_sel>>

\* ----------------------------------------------------------------- values
Cidades(n) == 0 .. (n - 1)
At(s, k) == s[k + 1]
Range(s) == {s[k] : k \in 1 .. Len(s)}

\* A tour: each city of 0..n-1 exactly once.
EhPermutacao(s, n) ==
    /\ Len(s) = n
    /\ Range(s) = Cidades(n)

Permutacoes(n) ==
    {s \in [1 .. n -> Cidades(n)] : \A p, q \in 1 .. n : p # q => s[p] # s[q]}

Pares(n) == {<<a, b>> \in Cidades(n) \X Cidades(n) : a < b}

\* gerar_matriz_distancias: zero diagonal, the same length in both directions.
MatrizDe(n, w) ==
    [a \in Cidades(n) |->
        [b \in Cidades(n) |->
            IF a = b THEN 0
            ELSE IF a < b THEN w[<<a, b>>] ELSE w[<<b, a>>]]]

Matrizes(n) == {MatrizDe(n, w) : w \in [Pares(n) -> Comprimentos]}

\* The unit square (0,0), (0,1), (1,1), (1,0): cities k and k+1 (mod 4) are a
\* side apart, cities k and k+2 a diagonal apart.
Quadrado ==
    MatrizDe(4, [p \in Pares(4) |-> IF p[2] - p[1] = 2 THEN 2 ELSE 1])

\* Four cities whose three round trips cost 5, 6 and 7.
Desigual ==
    MatrizDe(4, [p \in Pares(4) |-> IF p \in {<<0, 1>>, <<1, 2>>, <<2, 3>>} THEN 1 ELSE 2])

\* Four cities, every two of them 1 apart: every round trip costs 4.
Uniforme == MatrizDe(4, [p \in Pares(4) |-> 1])

\* The instances grasp is run on.
Instancias == {Quadrado, Desigual, Uniforme}

\* calcular_custo
RECURSIVE SomaArestas(_, _, _)
SomaArestas(rotas, d, k) ==
    IF k >= Len(rotas) - 1 THEN 0
    ELSE d[At(rotas, k)][At(rotas, k + 1)] + SomaArestas(rotas, d, k + 1)

calcular_custo(rotas, d) ==
    SomaArestas(rotas, d, 0) + d[At(rotas, Len(rotas) - 1)][At(rotas, 0)]

\* ------------------------------------------------------------------- heap
Addr == 1 .. MaxAddr

HeapVazio == [a \in Addr |-> <<>>]

\* Every reference a variable holds.
Vivos ==
    {melhor_solucao, solucao, solucao_perturbada, c_solucao, bl_solucao, melhor,
     resultado, saida1}
        \ {None}

\* Objects no variable refers to are collected.
Coletar(h, vivos) == [a \in Addr |-> IF a \in vivos THEN h[a] ELSE <<>>]

Livre(h) == CHOOSE a \in Addr : h[a] = <<>> /\ \A b \in Addr : b < a => h[b] # <<>>

\* A new list object with contents s: the heap after, and its reference.
Alocar(h, s) == [heap |-> [h EXCEPT ![Livre(h)] = s], ref |-> Livre(h)]

\* No copy: the same object.
SemCopia(h, r) == [heap |-> h, ref |-> r]

\* x[:]
CopiarLista(h, r) == Alocar(h, h[r])

\* The elements of s at start, start - 1, ..., down to but without `ate`.
RECURSIVE Descendo(_, _, _)
Descendo(s, start, ate) ==
    IF start <= ate THEN <<>>
    ELSE <<At(s, start)>> \o Descendo(s, start - 1, ate)

\* s[start:stop:-1] for 0 <= start < len(s): a negative stop counts from the
\* end of the list.
FatiaReversa(s, start, stop) ==
    Descendo(s, start, IF stop < 0 THEN stop + Len(s) ELSE stop)

\* s[a:b] = x
AtribuirFatia(s, a, b, x) == SubSeq(s, 1, a) \o x \o SubSeq(s, b + 1, Len(s))

params == <<distancias, alpha, iteracoes>>
gvars == <<melhor_solucao, melhor_custo, it, solucao, custo, solucao_perturbada, min_sel>>
cvars == <<c_solucao, nao_visitados, cidade_atual>>
blvars == <<bl_solucao, melhor, bl_melhor_custo, melhorou, i, j, aceitas>>
dvars == <<entrada, saida1>>

\* ------------------------------------------------------------ busca_local
\* The comparison turned around.
AceitaMaior(novo_custo, m_custo) == novo_custo > m_custo

\* The comparison made non-strict.
AceitaIgual(novo_custo, m_custo) == novo_custo <= m_custo

\* if novo_custo < melhor_custo
Aceita(novo_custo, m_custo) == novo_custo < m_custo

\* The statement melhorou = True left out.
MarcarOmitido(m) == m

\* melhorou = True, after a move is accepted: the value of melhorou, m before
Marcar(m) == TRUE

\* nova_solucao = melhor[:]; nova_solucao[i:j] = melhor[j-1:i-1:-1]
\* The heap after both statements, and the reference nova_solucao holds.
Candidato(h, m, a, b) ==
    LET c == CopiarLista(h, m)
    IN  [heap |-> [c.heap EXCEPT
                     ![c.ref] = AtribuirFatia(@, a, b, FatiaReversa(h[m], b - 1, a - 1))],
         ref |-> c.ref]

\* melhor = solucao; melhor_custo = calcular_custo(melhor, distancias); melhorou = True
BLInicio ==
    /\ pc = "bl_inicio"
    /\ melhor' = bl_solucao
    /\ bl_melhor_custo' = calcular_custo(heap[bl_solucao], distancias)
    /\ melhorou' = TRUE
    /\ aceitas' = <<>>
    /\ pc' = "bl_while"
    /\ UNCHANGED <<bl_solucao, i, j, ret, resultado, heap>>
    /\ UNCHANGED <<params, gvars, cvars, dvars>>

\* while melhorou: melhorou = False; the two for statements start, or, when
\* range(1, len(solucao) - 2) is empty, the pass is already over.
BLWhile ==
    /\ pc = "bl_while"
    /\ melhorou
    /\ melhorou' = FALSE
    /\ IF 1 < Len(heap[bl_solucao]) - 2
          THEN i' = 1 /\ j' = 2 /\ pc' = "bl_for"
          ELSE UNCHANGED <<i, j>> /\ pc' = "bl_107"
    /\ UNCHANGED <<bl_solucao, melhor, bl_melhor_custo, aceitas, ret, resultado, heap>>
    /\ UNCHANGED <<params, gvars, cvars, dvars>>

\* One run of the body of the inner for statement, for the pair (i, j), and
\* the step of the two ranges to the next pair.
BLCandidato ==
    /\ pc = "bl_for"
    /\ LET n == Len(heap[bl_solucao])
           c == Candidato(heap, melhor, i, j)
           novo_custo == calcular_custo(c.heap[c.ref], distancias)
       IN  /\ IF j - i = 1
                THEN UNCHANGED <<melhor, bl_melhor_custo, melhorou, aceitas>>
                ELSE IF Aceita(novo_custo, bl_melhor_custo)
                THEN /\ melhor' = c.ref
                     /\ bl_melhor_custo' = novo_custo
                     /\ melhorou' = Marcar(melhorou)
                     /\ aceitas' = Append(aceitas, c.heap[c.ref])
                ELSE UNCHANGED <<melhor, bl_melhor_custo, melhorou, aceitas>>
           /\ IF j + 1 < n
                THEN i' = i /\ j' = j + 1 /\ pc' = "bl_for"
                ELSE IF i + 1 < n - 2
                THEN i' = i + 1 /\ j' = i + 2 /\ pc' = "bl_for"
                ELSE UNCHANGED <<i, j>> /\ pc' = "bl_107"
           /\ UNCHANGED <<bl_solucao, ret, resultado>>
           /\ UNCHANGED <<params, gvars, cvars, dvars>>
           /\ heap' = IF j - i = 1 THEN heap ELSE Coletar(c.heap, Vivos')

\* solucao = melhor, after the for statements
BL107 ==
    /\ pc = "bl_107"
    /\ bl_solucao' = melhor
    /\ pc' = "bl_while"
    /\ UNCHANGED <<melhor, bl_melhor_custo, melhorou, i, j, aceitas, ret, resultado>>
    /\ UNCHANGED <<params, gvars, cvars, dvars>>
    /\ heap' = Coletar(heap, Vivos')

\* return melhor: the frame of the call is gone, its locals are reset
BLRetorno ==
    /\ pc = "bl_while"
    /\ ~melhorou
    /\ resultado' = melhor
    /\ pc' = ret
    /\ bl_solucao' = None
    /\ melhor' = None
    /\ bl_melhor_custo' = 0
    /\ i' = 0
    /\ j' = 0
    /\ aceitas' = <<>>
    /\ UNCHANGED <<melhorou, ret>>
    /\ UNCHANGED <<params, gvars, cvars, dvars>>
    /\ heap' = Coletar(heap, Vivos')

\* ------------------------------------------ a caller of busca_local alone
\* solucao = a tour; saida1 = busca_local(solucao, distancias);
\* busca_local(saida1, distancias)

\* The tour 0, 1, ..., n-1.
Identidade(n) == [k \in 1 .. n |-> k - 1]

\* The tours a call starts from.  Below the largest size, every tour.  At the
\* largest size the tour 0..n-1 alone: any other tour is this one with the
\* cities renamed, and Matrizes(n) holds every renaming of each of its matrices.
Entradas(n) == IF n < MaxN THEN Permutacoes(n) ELSE {Identidade(n)}

InitBL ==
    \E n \in 2 .. MaxN :
        /\ distancias \in Matrizes(n)
        /\ entrada \in Entradas(n)
        /\ heap = [HeapVazio EXCEPT ![1] = entrada]
        /\ solucao = 1
        /\ bl_solucao = 1
        /\ pc = "bl_inicio"
        /\ ret = "d_1"
        /\ alpha = 0
        /\ iteracoes = 0
        /\ resultado = None
        /\ melhor_solucao = None
        /\ melhor_custo = Infinito
        /\ it = 0
        /\ custo = 0
        /\ solucao_perturbada = None
        /\ c_solucao = None
        /\ nao_visitados = <<>>
        /\ cidade_atual = 0
        /\ melhor = None
        /\ bl_melhor_custo = 0
        /\ melhorou = FALSE
        /\ i = 0
        /\ j = 0
        /\ saida1 = None
        /\ aceitas = <<>>
        /\ min_sel = Infinito

SegundaChamada ==
    /\ pc = "d_1"
    /\ saida1' = resultado
    /\ bl_solucao' = resultado
    /\ resultado' = None
    /\ pc' = "bl_inicio"
    /\ ret' = "d_2"
    /\ UNCHANGED <<melhor, bl_melhor_custo, melhorou, i, j, aceitas, entrada>>
    /\ UNCHANGED <<params, gvars, cvars>>
    /\ heap' = Coletar(heap, Vivos')

NextBL ==
    \/ BLInicio
    \/ BLWhile
    \/ BLCandidato
    \/ BL107
    \/ BLRetorno
    \/ SegundaChamada

SpecBL == InitBL /\ [][NextBL]_vars

SpecBLJusto == InitBL /\ [][NextBL]_vars /\ WF_vars(NextBL)

\* ------------------------------------------------------ construir_solucao
\* The last element goes, whatever x is.
RemoveUltimo(s, x) == SubSeq(s, 1, Len(s) - 1)

\* list.remove(x): the first occurrence goes
RECURSIVE remove(_, _)
remove(s, x) ==
    IF s = <<>> THEN <<>>
    ELSE IF Head(s) = x THEN Tail(s)
    ELSE <<Head(s)>> \o remove(Tail(s), x)

\* e put into the sorted list s after every element whose key is not larger
RECURSIVE Inserir(_, _)
Inserir(s, e) ==
    IF s = <<>> THEN <<e>>
    ELSE IF e[2] < Head(s)[2] THEN <<e>> \o s
    ELSE <<Head(s)>> \o Inserir(Tail(s), e)

\* custos.sort(key=lambda x: x[1]): ascending in x[1], stable
RECURSIVE sort(_)
sort(s) ==
    IF s = <<>> THEN <<>>
    ELSE Inserir(sort(SubSeq(s, 1, Len(s) - 1)), s[Len(s)])

\* The + 1 left out.
LimiteSemUm(k, a) == (k * a) \div AlphaDen

\* limite = int(len(custos) * alpha) + 1
Limite(k, a) == (k * a) \div AlphaDen + 1

\* custos[:limite]
Prefixo(s, limite) == SubSeq(s, 1, IF limite < Len(s) THEN limite ELSE Len(s))

\* The restricted candidate list of the step from city `atual`.
RCL(d, atual, nv, a) ==
    LET custos == [k \in 1 .. Len(nv) |-> <<nv[k], d[atual][nv[k]]>>]
    IN  Prefixo(sort(custos), Limite(Len(custos), a))

\* n = len(distancias)
NumCidades == Cardinality(DOMAIN distancias)

\* solucao = []; nao_visitados = list(range(n)); the first city
ConstrInicio ==
    /\ pc = "c_inicio"
    /\ \E cidade \in Cidades(NumCidades) :
         LET r == Alocar(heap, <<cidade>>)
         IN  /\ cidade_atual' = cidade
             /\ c_solucao' = r.ref
             /\ nao_visitados' = remove([k \in 1 .. NumCidades |-> k - 1], cidade)
             /\ pc' = "c_while"
             /\ UNCHANGED <<ret, resultado>>
             /\ UNCHANGED <<params, gvars, blvars, dvars>>
             /\ heap' = Coletar(r.heap, Vivos')

\* One run of the body of `while nao_visitados`, choosing the city `cidade_escolhida`.
ConstrPasso(cidade_escolhida) ==
    /\ pc = "c_while"
    /\ nao_visitados # <<>>
    /\ \E e \in Range(RCL(distancias, cidade_atual, nao_visitados, alpha)) :
         e[1] = cidade_escolhida
    /\ nao_visitados' = remove(nao_visitados, cidade_escolhida)
    /\ cidade_atual' = cidade_escolhida
    /\ UNCHANGED <<c_solucao, pc, ret, resultado>>
    /\ UNCHANGED <<params, gvars, blvars, dvars>>
    /\ heap' = [heap EXCEPT ![c_solucao] = Append(@, cidade_escolhida)]

ConstrWhile == \E cidade \in Cidades(NumCidades) : ConstrPasso(cidade)

\* return solucao
ConstrRetorno ==
    /\ pc = "c_while"
    /\ nao_visitados = <<>>
    /\ resultado' = c_solucao
    /\ c_solucao' = None
    /\ cidade_atual' = 0
    /\ pc' = ret
    /\ UNCHANGED <<nao_visitados, ret>>
    /\ UNCHANGED <<params, gvars, blvars, dvars>>
    /\ heap' = Coletar(heap, Vivos')

\* A caller of construir_solucao alone.
InitConstr ==
    \E n \in 1 .. MaxNC :
        /\ distancias \in Matrizes(n)
        /\ alpha \in 0 .. AlphaDen
        /\ heap = HeapVazio
        /\ pc = "c_inicio"
        /\ ret = "d_c"
        /\ iteracoes = 0
        /\ resultado = None
        /\ melhor_solucao = None
        /\ melhor_custo = Infinito
        /\ it = 0
        /\ solucao = None
        /\ custo = 0
        /\ solucao_perturbada = None
        /\ c_solucao = None
        /\ nao_visitados = <<>>
        /\ cidade_atual = 0
        /\ bl_solucao = None
        /\ melhor = None
        /\ bl_melhor_custo = 0
        /\ melhorou = FALSE
        /\ i = 0
        /\ j = 0
        /\ entrada = <<>>
        /\ saida1 = None
        /\ aceitas = <<>>
        /\ min_sel = Infinito

NextConstr ==
    \/ ConstrInicio
    \/ ConstrWhile
    \/ ConstrRetorno

SpecConstr == InitConstr /\ [][NextConstr]_vars

\* --------------------------------------------------------------- perturbar
\* random.sample(range(n), 2): two different positions, in either order
Amostras(n) == {am \in Cidades(n) \X Cidades(n) : am[1] # am[2]}

\* The swap done in the list given: nova = solucao in place of nova = solucao[:].
PerturbarNoLugar(h, s, am) ==
    [heap |-> [h EXCEPT ![s] = [h[s] EXCEPT ![am[1] + 1] = At(h[s], am[2]),
                                            ![am[2] + 1] = At(h[s], am[1])]],
     ref |-> s]

\* nova = solucao[:]; nova[i], nova[j] = nova[j], nova[i]; return nova
\* The heap after, and the reference returned.
perturbar(h, s, am) ==
    LET c == CopiarLista(h, s)
        nova == c.heap[c.ref]
    IN  [heap |-> [c.heap EXCEPT
                     ![c.ref] = [nova EXCEPT ![am[1] + 1] = At(nova, am[2]),
                                             ![am[2] + 1] = At(nova, am[1])]],
         ref |-> c.ref]

\* A caller of perturbar alone: solucao = a tour; perturbar(solucao)
InitPert ==
    \E n \in 2 .. MaxN :
        /\ distancias = <<>>
        /\ entrada \in Permutacoes(n)
        /\ heap = [HeapVazio EXCEPT ![1] = entrada]
        /\ solucao = 1
        /\ pc = "p_chamada"
        /\ ret = "d_p"
        /\ alpha = 0
        /\ iteracoes = 0
        /\ resultado = None
        /\ melhor_solucao = None
        /\ melhor_custo = Infinito
        /\ it = 0
        /\ custo = 0
        /\ solucao_perturbada = None
        /\ c_solucao = None
        /\ nao_visitados = <<>>
        /\ cidade_atual = 0
        /\ bl_solucao = None
        /\ melhor = None
        /\ bl_melhor_custo = 0
        /\ melhorou = FALSE
        /\ i = 0
        /\ j = 0
        /\ saida1 = None
        /\ aceitas = <<>>
        /\ min_sel = Infinito

Perturbar ==
    /\ pc = "p_chamada"
    /\ \E am \in Amostras(Len(heap[solucao])) :
         LET r == perturbar(heap, solucao, am)
         IN  /\ resultado' = r.ref
             /\ pc' = ret
             /\ UNCHANGED <<ret>>
             /\ UNCHANGED <<params, gvars, cvars, blvars, dvars>>
             /\ heap' = Coletar(r.heap, Vivos')

NextPert == Perturbar

SpecPert == InitPert /\ [][NextPert]_vars

\* ------------------------------------------------------------------- grasp
\* The comparison made non-strict.
AtualizaIgual(c, m_custo) == c <= m_custo

\* if custo < melhor_custo
Atualiza(c, m_custo) == c < m_custo

\* for it in range(iteracoes): solucao = construir_solucao(distancias, alpha)
GraspFor ==
    /\ pc = "g_for"
    /\ it < iteracoes
    /\ pc' = "c_inicio"
    /\ ret' = "g_140"
    /\ UNCHANGED <<resultado, heap>>
    /\ UNCHANGED <<params, gvars, cvars, blvars, dvars>>

\* construir_solucao returned: solucao = busca_local(solucao, distancias) is called
Grasp140 ==
    /\ pc = "g_140"
    /\ solucao' = resultado
    /\ bl_solucao' = resultado
    /\ resultado' = None
    /\ pc' = "bl_inicio"
    /\ ret' = "g_143"
    /\ UNCHANGED <<melhor_solucao, melhor_custo, it, custo, solucao_perturbada, min_sel>>
    /\ UNCHANGED <<melhor, bl_melhor_custo, melhorou, i, j, aceitas>>
    /\ UNCHANGED <<params, cvars, dvars>>
    /\ heap' = Coletar(heap, Vivos')

\* busca_local returned: custo = calcular_custo(solucao, distancias);
\* solucao_perturbada = perturbar(solucao); busca_local(solucao_perturbada,
\* distancias) is called
Grasp143 ==
    /\ pc = "g_143"
    /\ \E am \in Amostras(Len(heap[resultado])) :
         LET r == perturbar(heap, resultado, am)
         IN  /\ solucao' = resultado
             /\ custo' = calcular_custo(heap[resultado], distancias)
             /\ solucao_perturbada' = r.ref
             /\ bl_solucao' = r.ref
             /\ resultado' = None
             /\ pc' = "bl_inicio"
             /\ ret' = "g_148"
             /\ UNCHANGED <<melhor_solucao, melhor_custo, it, min_sel>>
             /\ UNCHANGED <<melhor, bl_melhor_custo, melhorou, i, j, aceitas>>
             /\ UNCHANGED <<params, cvars, dvars>>
             /\ heap' = Coletar(r.heap, Vivos')

\* The cost an iteration selects: the lower of custo and custo_perturbado.
Selecionado(c, c_perturbado) == IF c_perturbado < c THEN c_perturbado ELSE c

\* busca_local returned: solucao_perturbada and custo_perturbado are set, the
\* better of the two tours is kept, and the best recorded is updated.  The
\* locals of the iteration are dead after it (line 140 rebinds solucao before
\* any read), so they are reset.
Grasp148 ==
    /\ pc = "g_148"
    /\ LET custo_perturbado == calcular_custo(heap[resultado], distancias)
           sel_solucao == IF custo_perturbado < custo THEN resultado ELSE solucao
           sel_custo == Selecionado(custo, custo_perturbado)
       IN  /\ IF Atualiza(sel_custo, melhor_custo)
                THEN melhor_solucao' = sel_solucao /\ melhor_custo' = sel_custo
                ELSE UNCHANGED <<melhor_solucao, melhor_custo>>
           /\ min_sel' = IF sel_custo < min_sel THEN sel_custo ELSE min_sel
    /\ it' = it + 1
    /\ solucao' = None
    /\ custo' = 0
    /\ solucao_perturbada' = None
    /\ resultado' = None
    /\ pc' = "g_for"
    /\ UNCHANGED <<ret>>
    /\ UNCHANGED <<params, cvars, blvars, dvars>>
    /\ heap' = Coletar(heap, Vivos')

\* return melhor_solucao, melhor_custo
GraspRetorno ==
    /\ pc = "g_for"
    /\ it >= iteracoes
    /\ pc' = "g_fim"
    /\ UNCHANGED <<ret, resultado, heap>>
    /\ UNCHANGED <<params, gvars, cvars, blvars, dvars>>

\* melhor_solucao = None; melhor_custo = float("inf")
InitGrasp ==
    /\ heap = HeapVazio
    /\ pc = "g_for"
    /\ ret = "g_fim"
    /\ resultado = None
    /\ melhor_solucao = None
    /\ melhor_custo = Infinito
    /\ it = 0
    /\ solucao = None
    /\ custo = 0
    /\ solucao_perturbada = None
    /\ c_solucao = None
    /\ nao_visitados = <<>>
    /\ cidade_atual = 0
    /\ bl_solucao = None
    /\ melhor = None
    /\ bl_melhor_custo = 0
    /\ melhorou = FALSE
    /\ i = 0
    /\ j = 0
    /\ entrada = <<>>
    /\ saida1 = None
    /\ aceitas = <<>>
    /\ min_sel = Infinito

Init ==
    /\ distancias \in Instancias
    /\ alpha \in 0 .. AlphaDen
    /\ iteracoes \in 0 .. MaxIter
    /\ InitGrasp

InitQuadrado ==
    /\ distancias = Quadrado
    /\ alpha \in 0 .. AlphaDen
    /\ iteracoes = Orcamento
    /\ InitGrasp

Next ==
    \/ GraspFor
    \/ ConstrInicio
    \/ ConstrWhile
    \/ ConstrRetorno
    \/ Grasp140
    \/ BLInicio
    \/ BLWhile
    \/ BLCandidato
    \/ BL107
    \/ BLRetorno
    \/ Grasp143
    \/ Grasp148
    \/ GraspRetorno

Spec == Init /\ [][Next]_vars

SpecQuadrado == InitQuadrado /\ [][Next]_vars

\* ============================================================== properties
\* The cyclic tour r with the edges leaving positions a and b (a < b) removed
\* and the segment between them, positions a+1..b, reversed.
DoisOpt(r, a, b) ==
    [k \in 1 .. Len(r) |-> IF a + 1 <= k - 1 /\ k - 1 <= b THEN At(r, a + 1 + b - (k - 1)) ELSE r[k]]

\* The pairs of edges of a cyclic tour of n cities that share no city: the edge
\* leaving position n-1 is the wrap-around edge back to position 0.
ArestasSeparadas(n) ==
    {ab \in Cidades(n) \X Cidades(n) :
        /\ ab[1] + 1 < ab[2]
        /\ ~(ab[1] = 0 /\ ab[2] = n - 1)}

OtimoLocal(r, d) ==
    \A ab \in ArestasSeparadas(Len(r)) :
        calcular_custo(DoisOpt(r, ab[1], ab[2]), d) >= calcular_custo(r, d)

\* C1: the tour busca_local returns is a local optimum of the 2-opt
\* neighbourhood: no removal of two edges that share no city, the wrap-around
\* edge included, followed by the reversal of the segment between them, gives
\* a tour of strictly lower cost.
C1_OtimoLocal2Opt ==
    pc = "d_1" => OtimoLocal(heap[resultado], distancias)

\* C2: on the unit square grasp with a budget of at least 10 iterations
\* returns the cost of the perimeter, 4, whatever alpha and the random choices.
C2_QuadradoCustoOtimo ==
    (pc = "g_fim" /\ iteracoes >= 10) => melhor_custo = 4

\* C3: the tour busca_local returns costs no more than the tour it was given,
\* and is a permutation of 0..n-1.
C3_NuncaPiora ==
    pc = "d_1" =>
        /\ calcular_custo(heap[resultado], distancias) <= calcular_custo(entrada, distancias)
        /\ EhPermutacao(heap[resultado], Len(entrada))

C3_Witness ==
    /\ pc = "d_1"
    /\ Len(entrada) = 5
    /\ calcular_custo(heap[resultado], distancias) + 2 <= calcular_custo(entrada, distancias)

\* C4: construir_solucao returns each city of 0..n-1 exactly once, and at
\* every step of its loop the partial tour and the unvisited list are disjoint
\* and together hold each city exactly once.
C4_Permutacao ==
    /\ pc = "c_while" =>
          /\ Len(heap[c_solucao]) + Len(nao_visitados) = NumCidades
          /\ Range(heap[c_solucao]) \cap Range(nao_visitados) = {}
          /\ Range(heap[c_solucao]) \cup Range(nao_visitados) = Cidades(NumCidades)
    /\ pc = "d_c" => EhPermutacao(heap[resultado], NumCidades)

C4_Witness ==
    /\ pc = "d_c"
    /\ NumCidades = 4
    /\ alpha = 1
    /\ heap[resultado] = <<2, 0, 3, 1>>

\* C5: perturbar returns a new tour, a permutation of the same cities, that
\* differs from the tour given in exactly two positions, whose cities are
\* exchanged; the tour given is left as it was.
C5_TrocaDuasPosicoes ==
    pc = "d_p" =>
        LET r == heap[resultado]
            n == Len(entrada)
        IN  /\ resultado # solucao
            /\ heap[solucao] = entrada
            /\ EhPermutacao(r, n)
            /\ \E p, q \in 1 .. n :
                  /\ p < q
                  /\ r[p] = entrada[q] /\ r[q] = entrada[p]
                  /\ r[p] # entrada[p] /\ r[q] # entrada[q]
                  /\ \A k \in 1 .. n : k \notin {p, q} => r[k] = entrada[k]

C5_Witness ==
    /\ pc = "d_p"
    /\ entrada = <<3, 0, 4, 1, 2>>
    /\ heap[resultado] = <<3, 2, 4, 1, 0>>
    /\ heap[solucao] = entrada

\* C6: the best recorded by grasp starts as (None, infinity); it is replaced
\* only at the end of an iteration whose selected cost is strictly smaller than
\* the best cost recorded, and becomes that cost; so the best cost recorded
\* never increases, and at return it is the least cost any iteration selected.
C6_MelhorGlobal ==
    /\ melhor_solucao = None /\ melhor_custo = Infinito
    /\ [][(melhor_custo' # melhor_custo \/ melhor_solucao' # melhor_solucao) =>
             /\ pc = "g_148"
             /\ Selecionado(custo, calcular_custo(heap[resultado], distancias)) < melhor_custo
             /\ melhor_custo' = Selecionado(custo, calcular_custo(heap[resultado], distancias))]_vars
    /\ [][melhor_custo' <= melhor_custo]_vars
    /\ [](pc = "g_fim" => melhor_custo = min_sel)

\* The second iteration is about to end: a best of cost 6 is recorded, and the
\* iteration selects a tour of cost 5.
C6_Witness ==
    /\ pc = "g_148"
    /\ it = 1
    /\ distancias = Desigual
    /\ melhor_solucao # None
    /\ melhor_custo = 6
    /\ Selecionado(custo, calcular_custo(heap[resultado], distancias)) = 5

\* C7: the 2-opt loop of busca_local terminates: a move that is accepted
\* strictly lowers the best cost, no tour is accepted twice (nor is the tour
\* given accepted), and the loop is left at the end of the first pass that
\* accepted no move.
C7_Termina ==
    /\ <>(pc = "d_2")
    /\ [][aceitas' # aceitas /\ aceitas' # <<>> =>
             /\ bl_melhor_custo' < bl_melhor_custo
             /\ melhorou']_vars
    /\ [](pc \in {"bl_while", "bl_for", "bl_107"} =>
             \A p, q \in 1 .. Len(aceitas) :
                 /\ p # q => aceitas[p] # aceitas[q]
                 /\ aceitas[p] # (IF ret = "d_1" THEN entrada ELSE heap[saida1]))
    /\ [][pc = "bl_107" /\ ~melhorou => pc' = "bl_while" /\ ~melhorou']_vars
    /\ [][pc = "bl_while" /\ ~melhorou => pc' = ret /\ resultado' = melhor]_vars

\* The first call is about to return: it accepted two moves, and its last
\* pass accepted none.
C7_Witness ==
    /\ pc = "bl_while"
    /\ ~melhorou
    /\ ret = "d_1"
    /\ Len(aceitas) = 2

\* C8: busca_local applied to its own result accepts no move and returns a
\* tour equal to the one given, of the same cost.
C8_Idempotente ==
    (pc = "bl_while" /\ ~melhorou /\ ret = "d_2") =>
        /\ aceitas = <<>>
        /\ heap[melhor] = heap[saida1]
        /\ calcular_custo(heap[melhor], distancias) = calcular_custo(heap[saida1], distancias)

\* The second call is about to return, the first having changed the tour in
\* more than one pass.
C8_Witness ==
    /\ pc = "bl_while"
    /\ ~melhorou
    /\ ret = "d_2"
    /\ Len(entrada) = 5
    /\ calcular_custo(heap[saida1], distancias) + 2 <= calcular_custo(entrada, distancias)

\* The unvisited cities that come before city c in ascending order of distance
\* from city `atual`, cities equally far in the order of the unvisited list.
AntesDe(c, atual, nv) ==
    {k \in 1 .. Len(nv) :
        \/ distancias[atual][nv[k]] < distancias[atual][c]
        \/ /\ distancias[atual][nv[k]] = distancias[atual][c]
           /\ \E q \in 1 .. Len(nv) : nv[q] = c /\ k < q}

\* min(k, floor(k * alpha) + 1), alpha being alpha / AlphaDen
TamanhoRCL(k) ==
    LET piso == CHOOSE f \in 0 .. k : f * AlphaDen <= k * alpha /\ k * alpha < (f + 1) * AlphaDen
    IN  IF piso + 1 < k THEN piso + 1 ELSE k

\* C9: with k cities unvisited, the city appended is one of the first
\* min(k, floor(k * alpha) + 1) of them in ascending order of distance from
\* the current city, and some city can be appended; with alpha = 0 the city
\* appended is a nearest unvisited one, and with alpha = 1 each unvisited city
\* can be appended.
C9_ListaRestrita ==
    /\ [][pc = "c_while" /\ nao_visitados # <<>> =>
             /\ cidade_atual' \in Range(nao_visitados)
             /\ Cardinality(AntesDe(cidade_atual', cidade_atual, nao_visitados))
                    < TamanhoRCL(Len(nao_visitados))
             /\ heap'[c_solucao] = Append(heap[c_solucao], cidade_atual')
             /\ alpha = 0 =>
                    \A u \in Range(nao_visitados) :
                        distancias[cidade_atual][cidade_atual'] <= distancias[cidade_atual][u]]_vars
    /\ [](pc = "c_while" /\ nao_visitados # <<>> =>
             LET candidatos ==
                     {e[1] : e \in Range(RCL(distancias, cidade_atual, nao_visitados, alpha))}
             IN  /\ candidatos # {}
                 /\ candidatos \subseteq Range(nao_visitados)
                 /\ alpha = AlphaDen => candidatos = Range(nao_visitados))

\* With alpha = 1/2 and three cities unvisited the second nearest was
\* appended, a city farther than the nearest.
C9_Witness ==
    /\ pc = "c_while"
    /\ NumCidades = 4
    /\ 2 * alpha = AlphaDen
    /\ Len(heap[c_solucao]) = 2
    /\ \E u \in Range(nao_visitados) :
          distancias[heap[c_solucao][1]][u] < distancias[heap[c_solucao][1]][heap[c_solucao][2]]

\* C10: whenever grasp holds a best tour it is a permutation of 0..n-1 and
\* the best cost is the cost of that tour; one is held from the end of the
\* first iteration on; and no step of busca_local, perturbar or grasp changes
\* the contents of a list that existed before the step, the best tour included:
\* they write to fresh copies only (construir_solucao appends to its own list).
C10_MelhorIntacta ==
    /\ [](melhor_solucao # None =>
             /\ EhPermutacao(heap[melhor_solucao], NumCidades)
             /\ melhor_custo = calcular_custo(heap[melhor_solucao], distancias))
    /\ [](pc \in {"g_for", "g_fim"} /\ it >= 1 => melhor_solucao # None)
    /\ [][\A a \in Addr :
             (a \in Vivos /\ a \in Vivos' /\ a # c_solucao) => heap'[a] = heap[a]]_vars
    /\ [][melhor_solucao # None /\ melhor_solucao' = melhor_solucao =>
             heap'[melhor_solucao] = heap[melhor_solucao]]_vars

\* A best tour is recorded and, in a later iteration, busca_local has just
\* accepted a move on the perturbed copy of another tour.
C10_Witness ==
    /\ pc = "bl_for"
    /\ ret = "g_148"
    /\ it >= 1
    /\ melhor_solucao # None
    /\ aceitas # <<>>
    /\ heap[melhor] # heap[melhor_solucao]

====
